---- MODULE Spec2Model ----
(***************************************************************************)
(* A model of the agent orchestrator of the microservice-migration tool:   *)
(* the FIFO TaskQueue, AgentOrchestrator.process_codebase with its         *)
(* follow-up derivation and coverage completion, and the /api/analyze      *)
(* handler that stores the status of each run.                             *)
(*                                                                         *)
(* process_codebase is a coroutine on one asyncio event loop: it only      *)
(* yields at `await action_fn(...)`.  Everything between two awaits is one *)
(* atomic step of the model.                                               *)
(***************************************************************************)
EXTENDS Integers, Sequences, FiniteSets, TLC

VARIABLES
    agents,                  \* AgentOrchestrator.agents: name -> the actions the agent object has
    task_queue,              \* AgentOrchestrator.task_queue.tasks
    run,                     \* per request: the frame of process_and_store / process_codebase
    analysis_results_store,  \* routes.analysis_results_store: repo_id -> record
    allocated,               \* number of object addresses handed out to Task objects so far
    added,                   \* history: every task given to add_task, in call order
    got,                     \* history: every task returned by get_next_task, in call order
    fn_call,                 \* a pure function under test and its arguments
    fn_ret                   \* what that call produced

vars == <<agents, task_queue, run, analysis_results_store, allocated, added, got,
          fn_call, fn_ret>>

-----------------------------------------------------------------------------
(* Bounds of the model *)

MaxServices == 2      \* longest boundary list a collaborator returns
MaxTasks == 8         \* cap on Task objects created (never binding for the code as written)
MaxQueueOps == 4      \* add_task calls in the stand-alone queue specification

\* The files the repository may hold, and a path no repository file has.
Files == {"a.py", "b.py"}
Ghost == "ghost.py"
Paths == Files \cup {Ghost}

\* Requests (repo_id values; uuid4 makes them distinct).
Runs == {1, 2}

-----------------------------------------------------------------------------
(* Python dict helpers *)

\* d[k] = v
Put(d, k, v) == [x \in DOMAIN d \cup {k} |-> IF x = k THEN v ELSE d[x]]

EmptyDict == [x \in {} |-> TRUE]

Range(s) == {s[i] : i \in DOMAIN s}

\* The sequences over S of length at most n.
RECURSIVE SeqsUpTo(_, _)
SeqsUpTo(S, n) ==
    IF n = 0 THEN {<<>>}
    ELSE LET shorter == SeqsUpTo(S, n - 1)
         IN  shorter \cup {Append(s, x) : s \in {t \in shorter : Len(t) = n - 1}, x \in S}

-----------------------------------------------------------------------------
(* Task and TaskQueue *)

\* Task.__init__: id = f"{agent}_{action}_{id(self)}"; the id string is kept as
\* the triple it is formatted from.
Task(agent, action, params, addr) ==
    [agent |-> agent, action |-> action, params |-> params,
     id |-> <<agent, action, addr>>]

\* TaskQueue.add_task
AddTask(tasks, task) == Append(tasks, task)

\* TaskQueue.get_next_task: [task, rest]; task is None on an empty queue.
None == [none |-> TRUE]
GetNextTaskLast(tasks) ==
    IF tasks # <<>>
    THEN [task |-> tasks[Len(tasks)], rest |-> SubSeq(tasks, 1, Len(tasks) - 1)]
    ELSE [task |-> None, rest |-> tasks]
\* A get that pops without testing the list: IndexError on an empty queue.
GetNextTaskPops(tasks) ==
    IF tasks # <<>>
    THEN [task |-> Head(tasks), rest |-> Tail(tasks)]
    ELSE [task |-> [raised |-> TRUE], rest |-> tasks]
GetNextTask(tasks) ==
    IF tasks # <<>>
    THEN [task |-> Head(tasks), rest |-> Tail(tasks)]
    ELSE [task |-> None, rest |-> tasks]

\* TaskQueue.is_empty
IsEmpty(tasks) == Len(tasks) = 0

-----------------------------------------------------------------------------
(* Values exchanged with the collaborators *)

\* What `await action_fn(**params)` can do: raise, or return a value.
Raised == [raised |-> TRUE]
Returned(v) == [raised |-> FALSE, value |-> v]

\* A service boundary as a collaborator hands it over.  shape tells what the
\* Python value is: a dict with a "files" list ("ok"), a dict without the key
\* ("no_files"), a dict whose "files" is None ("files_none"), or no dict at
\* all ("not_mapping").  files is the set of paths of the "files" list.
Boundary(name, shape, files) == [name |-> name, shape |-> shape, files |-> files]

\* The names ArchitectAgent gives its boundaries, by position in the list.
ServiceNames == <<"UserService", "ProductService", "OrderService">>

BoundaryValues ==
    {[shape |-> "ok", files |-> fs] : fs \in SUBSET Paths}
        \cup {[shape |-> sh, files |-> {}] : sh \in {"no_files", "files_none", "not_mapping"}}

\* The boundary lists of length at most n; the i-th boundary carries the i-th name.
BoundaryLists(n) ==
    {[i \in 1..Len(s) |-> Boundary(ServiceNames[i], s[i].shape, s[i].files)] :
        s \in SeqsUpTo(BoundaryValues, n)}

\* service.get("files", []): raises on a value without .get; the value is
\* None for "files": None, the default [] without the key, the list otherwise.
ServiceGetFiles(service) ==
    [raised |-> service.shape = "not_mapping",
     is_none |-> service.shape = "files_none",
     value |-> IF service.shape = "ok" THEN service.files ELSE {}]

\* The synthetic boundary of _ensure_complete_file_mapping.
SharedService(unassigned_files) ==
    Boundary("SharedOrUnassigned", "ok", unassigned_files)

\* AgentOrchestrator._ensure_complete_file_mapping: Raised when a
\* service.get or set.update raises, and the list it returns otherwise.
\* parsed_files is the set of keys of the dict.
EnsureDropsForeign(service_list, parsed_files) ==
    IF \E i \in DOMAIN service_list : service_list[i].shape \in {"not_mapping", "files_none"}
    THEN Raised
    ELSE LET kept == [i \in DOMAIN service_list |->
                        Boundary(service_list[i].name, service_list[i].shape,
                                 service_list[i].files \cap parsed_files)]
             all_service_files == UNION {kept[i].files : i \in DOMAIN kept}
             unassigned_files == parsed_files \ all_service_files
         IN  IF unassigned_files # {}
             THEN Returned(Append(kept, SharedService(unassigned_files)))
             ELSE Returned(kept)
EnsureNoAppend(service_list, parsed_files) ==
    IF \E i \in DOMAIN service_list : service_list[i].shape \in {"not_mapping", "files_none"}
    THEN Raised
    ELSE Returned(service_list)
EnsureCompleteFileMapping(service_list, parsed_files) ==
    IF \E i \in DOMAIN service_list :
            \/ ServiceGetFiles(service_list[i]).raised      \* AttributeError
            \/ ServiceGetFiles(service_list[i]).is_none     \* set.update(None): TypeError
    THEN Raised
    ELSE LET all_service_files ==
                 UNION {ServiceGetFiles(service_list[i]).value : i \in DOMAIN service_list}
             unassigned_files == parsed_files \ all_service_files
         IN  IF unassigned_files # {}
             THEN Returned(Append(service_list, SharedService(unassigned_files)))
             ELSE Returned(service_list)

-----------------------------------------------------------------------------
(* Results of the three agents *)

\* CodeAnalysisAgent.analyze_repository returns a dict with 'parsed_files'; an
\* agent registered under the name may also return a dict without the key, or
\* None.  parsed_files is the set of keys of the dict.
AnalyzerResult(shape, parsed_files) == [shape |-> shape, parsed_files |-> parsed_files]
AnalyzerResults ==
    {AnalyzerResult("mapping", fs) : fs \in SUBSET Files}
        \cup {AnalyzerResult("no_parsed_files", {}), AnalyzerResult("none", {})}

\* What identify_service_boundaries returns: no dict at all, or a dict that
\* may hold 'service_boundaries' and 'potential_services', directly or under
\* 'analysis_results' (nested).  A list that is absent has present = FALSE.
NoList == [present |-> FALSE, list |-> <<>>]
SomeList(l) == [present |-> TRUE, list |-> l]
ArchitectResult(shape, nested, sb, ps) ==
    [shape |-> shape, nested |-> nested,
     service_boundaries |-> sb, potential_services |-> ps]
ArchitectResults ==
    {ArchitectResult("not_mapping", FALSE, NoList, NoList)}
        \cup {ArchitectResult("mapping", FALSE, SomeList(l), NoList) :
                l \in BoundaryLists(MaxServices)}
        \cup {ArchitectResult("mapping", n, sb, SomeList(l)) :
                n \in BOOLEAN, sb \in {NoList, SomeList(<<>>)}, l \in BoundaryLists(1)}
        \cup {ArchitectResult("mapping", n, SomeList(l), SomeList(<<Boundary("Legacy", "ok", Files)>>)) :
                n \in BOOLEAN, l \in BoundaryLists(1) \ {<<>>}}
        \cup {ArchitectResult("mapping", FALSE, NoList, NoList)}

\* A generated file and what refactor_code returns.
GeneratedFile(path, content) == [path |-> path, content |-> content]
DeveloperResult(service_name, files) == [service_name |-> service_name, files |-> files]
GeneratedFileLists ==
    {<<GeneratedFile("svc/main.py", "code")>>,
     <<GeneratedFile("README.md", "Error generating code")>>}

\* results[task.id] after an exception: {"error": str(e)}
ErrorOutcome == [error |-> "exception"]

\* The outcomes of awaiting the operation of a task.
ExecOutcomes(task) ==
    {Raised} \cup
    CASE task.agent = "analyzer" -> {Returned(r) : r \in AnalyzerResults}
      [] task.agent = "architect" -> {Returned(r) : r \in ArchitectResults}
      [] OTHER -> {Returned(DeveloperResult(task.params.service_boundary.name, fl)) :
                      fl \in GeneratedFileLists}
-----------------------------------------------------------------------------
(* Follow-up derivation *)

\* A task before its Task object exists.
TaskSpec(agent, action, params) == [agent |-> agent, action |-> action, params |-> params]

\* Which list line 107 picks: result.get('analysis_results', result), then
\* .get('service_boundaries') or .get('potential_services', []).
ServiceListSource(result) ==
    IF result.service_boundaries.present /\ result.service_boundaries.list # <<>>
    THEN "service_boundaries"
    ELSE IF result.potential_services.present THEN "potential_services"
    ELSE "default"

ServiceListOf(result) ==
    CASE ServiceListSource(result) = "service_boundaries" -> result.service_boundaries.list
      [] ServiceListSource(result) = "potential_services" -> result.potential_services.list
      [] OTHER -> <<>>

\* _ensure_complete_file_mapping appends to the list object it was given: a
\* list taken from the result is the list the recorded outcome holds.
WithServiceList(result, service_list) ==
    CASE ServiceListSource(result) = "service_boundaries" ->
            [result EXCEPT !.service_boundaries = SomeList(service_list)]
      [] ServiceListSource(result) = "potential_services" ->
            [result EXCEPT !.potential_services = SomeList(service_list)]
      [] OTHER -> result

\* files_for_service without the test `if f in parsed_files`.
FilesForServiceUnfiltered(service, parsed_files) == ServiceGetFiles(service).value

\* files_for_service of lines 113-117
FilesForService(service, parsed_files) ==
    {f \in ServiceGetFiles(service).value : f \in parsed_files}

RefactorSpec(service, parsed_files) ==
    TaskSpec("developer", "refactor_code",
             [service_boundary |-> service,
              original_code |-> FilesForService(service, parsed_files)])

IdentifySpec(result) ==
    TaskSpec("architect", "identify_service_boundaries", [analysis_results |-> result])

\* AgentOrchestrator._generate_follow_up_tasks, up to the creation of the
\* Task objects: Raised, or the tasks to create (in order) and the result as
\* the derivation leaves it.
FollowUps(specs, result) == [raised |-> FALSE, specs |-> specs, result |-> result]

\* Variants of _generate_follow_up_tasks with a slip in them.
GenerateFollowUpTasksNoEnsure(task, result, parsed_files) ==
    IF task.agent = "analyzer" /\ task.action = "analyze_repository"
    THEN FollowUps(<<IdentifySpec(result)>>, result)
    ELSE IF task.agent = "architect" /\ task.action = "identify_service_boundaries"
    THEN IF \/ result.shape = "not_mapping"
            \/ EnsureCompleteFileMapping(ServiceListOf(result), parsed_files).raised
         THEN Raised
         ELSE LET service_list == ServiceListOf(result)   \* line 110 left out
                  with_files == SelectSeq(service_list,
                      LAMBDA service : FilesForService(service, parsed_files) # {})
              IN  FollowUps([i \in 1..Len(with_files) |->
                                RefactorSpec(with_files[i], parsed_files)],
                            result)
    ELSE FollowUps(<<>>, result)
GenerateFollowUpTasksEager(task, result, parsed_files) ==
    IF task.agent = "analyzer" /\ task.action = "analyze_repository"
    THEN \* the refactor task of all files is derived from the analysis already
         FollowUps(IF parsed_files # {}
                   THEN <<RefactorSpec(SharedService(parsed_files), parsed_files),
                          IdentifySpec(result)>>
                   ELSE <<IdentifySpec(result)>>, result)
    ELSE IF task.agent = "architect" /\ task.action = "identify_service_boundaries"
    THEN IF result.shape = "not_mapping"
         THEN Raised
         ELSE LET ensured == EnsureCompleteFileMapping(ServiceListOf(result), parsed_files)
              IN  IF ensured.raised
                  THEN Raised
                  ELSE LET service_list == ensured.value
                           with_files == SelectSeq(service_list,
                               LAMBDA service : FilesForService(service, parsed_files) # {})
                       IN  FollowUps([i \in 1..Len(with_files) |->
                                         RefactorSpec(with_files[i], parsed_files)],
                                     WithServiceList(result, service_list))
    ELSE FollowUps(<<>>, result)
GenerateFollowUpTasks(task, result, parsed_files) ==
    IF task.agent = "analyzer" /\ task.action = "analyze_repository"
    THEN FollowUps(<<IdentifySpec(result)>>, result)
    ELSE IF task.agent = "architect" /\ task.action = "identify_service_boundaries"
    THEN IF result.shape = "not_mapping"
         THEN Raised                                   \* result.get: AttributeError
         ELSE LET ensured == EnsureCompleteFileMapping(ServiceListOf(result), parsed_files)
              IN  IF ensured.raised
                  THEN Raised
                  ELSE LET service_list == ensured.value
                           with_files == SelectSeq(service_list,
                               LAMBDA service : FilesForService(service, parsed_files) # {})
                       IN  FollowUps([i \in 1..Len(with_files) |->
                                         RefactorSpec(with_files[i], parsed_files)],
                                     WithServiceList(result, service_list))
    ELSE FollowUps(<<>>, result)
-----------------------------------------------------------------------------
(* Terminal audit *)

\* "Error generating code" in content
SignalsError(content) == content = "Error generating code"

\* developer_outputs of _validate_complete_coverage: the values recorded under
\* an id that starts with "developer_refactor_code" and that hold "files".
DeveloperOutputs(results) ==
    {results[k] : k \in {x \in DOMAIN results :
        x[1] = "developer" /\ x[2] = "refactor_code" /\ "files" \in DOMAIN results[x]}}

\* The test of line 196.
AuditFailed(files) ==
    \/ files = <<>>
    \/ /\ Len(files) = 1
       /\ files[1].path \in {"README.txt", "README.md"}
       /\ SignalsError(files[1].content)

\* AgentOrchestrator._validate_complete_coverage: it logs and returns None;
\* these are the two lists it builds (as sets of service names).
ValidateCompleteCoverage(results, parsed_files) ==
    [failed_services |->
        {o.service_name : o \in {d \in DeveloperOutputs(results) : AuditFailed(d.files)}},
     successful_services |->
        {o.service_name : o \in {d \in DeveloperOutputs(results) : ~AuditFailed(d.files)}}]

-----------------------------------------------------------------------------
(* Object addresses: id(self) *)

Addr(task) == task.id[3]

\* The local variables of a suspended process_codebase frame that hold Task objects.
FrameRefs(f) ==
    {Addr(t) : t \in ({f.initial_task, f.current_task, f.task} \ {None})
                        \cup Range(f.follow_up_tasks)}

\* The ways to give n new objects their addresses: an address that was used
\* and is free again, or a fresh one (fresh ones in increasing order, at most
\* MaxTasks of them).  [addrs, next]
RECURSIVE Alloc(_, _, _)
Alloc(n, free, next) ==
    IF n = 0 THEN {[addrs |-> <<>>, next |-> next]}
    ELSE UNION {
            {[addrs |-> <<a>> \o rest.addrs, next |-> rest.next] :
                rest \in Alloc(n - 1, free \ {a}, IF a = next THEN next + 1 ELSE next)} :
            a \in free \cup (IF next <= MaxTasks THEN {next} ELSE {})}

\* Task(...) for each spec, at the given addresses.
MakeTasks(specs, addrs) ==
    [i \in 1..Len(specs) |-> Task(specs[i].agent, specs[i].action, specs[i].params, addrs[i])]

-----------------------------------------------------------------------------
(* process_codebase *)

AgentNames == {"analyzer", "architect", "developer"}

\* The method each collaborator is asked for.
ActionOf(name) ==
    CASE name = "analyzer" -> "analyze_repository"
      [] name = "architect" -> "identify_service_boundaries"
      [] OTHER -> "refactor_code"

\* Lines 60-68: the agent is registered and has the action.
Executable(task, ags) ==
    /\ task.agent \in DOMAIN ags
    /\ task.action \in ags[task.agent]

\* The seed of line 46.
InitialSpecs(repo_url) ==
    <<TaskSpec("analyzer", "analyze_repository", [repo_url |-> repo_url])>>

\* The except clause, had it re-raised after logging.
ExceptClauseReraises(results, current_task) ==
    [propagate |-> TRUE, results |-> results]

\* Lines 79-82: what the except clause does with an exception of the call.
ExceptClause(results, current_task) ==
    [propagate |-> FALSE, results |-> Put(results, current_task.id, ErrorOutcome)]

\* The loop of lines 55-68 from its head to the next await: tasks are
\* dequeued until one can be executed or the queue is empty.
\* [current_task (None when the loop ends), rest, dequeued]
RECURSIVE NextToExecute(_, _)
NextToExecute(tasks, ags) ==
    IF IsEmpty(tasks)
    THEN [current_task |-> None, rest |-> tasks, dequeued |-> <<>>]
    ELSE LET g == GetNextTask(tasks)
         IN  IF Executable(g.task, ags)
             THEN [current_task |-> g.task, rest |-> g.rest, dequeued |-> <<g.task>>]
             ELSE LET d == NextToExecute(g.rest, ags)
                  IN  [d EXCEPT !.dequeued = <<g.task>> \o d.dequeued]

\* for task in follow_up_tasks: self.task_queue.add_task(task)
RECURSIVE AddAll(_, _)
AddAll(tasks, new) ==
    IF new = <<>> THEN tasks ELSE AddAll(AddTask(tasks, Head(new)), Tail(new))

Tagged(tasks, r) == [i \in 1..Len(tasks) |-> [task |-> tasks[i], by |-> r]]

IdleFrame ==
    [pc |-> "idle", results |-> EmptyDict, parsed_files |-> {},
     initial_task |-> None, current_task |-> None, follow_up_tasks |-> <<>>, task |-> None,
     failed_calls |-> {},      \* history: the ids of the tasks whose call raised
     as_recorded |-> EmptyDict]  \* history: each outcome as line 73 or 81 stored it

\* The frame once process_codebase is left: its locals are gone, results is
\* what it returned (pc = "returned") or held when the exception left it.
Left(f, pc) ==
    [f EXCEPT !.pc = pc, !.initial_task = None, !.current_task = None,
              !.follow_up_tasks = <<>>, !.task = None]

Live ==
    {Addr(task_queue[i]) : i \in DOMAIN task_queue}
        \cup UNION {FrameRefs(run[r]) : r \in {x \in Runs : run[x].pc = "awaiting"}}

TypeOK ==
    /\ DOMAIN agents \subseteq AgentNames
    /\ \A r \in Runs : run[r].pc \in {"idle", "scheduled", "awaiting", "returned", "raised"}
    /\ allocated \in 0..MaxTasks

Init ==
    /\ agents = EmptyDict
    /\ task_queue = <<>>
    /\ run = [r \in Runs |-> IdleFrame]
    /\ analysis_results_store = EmptyDict
    /\ allocated = 0
    /\ added = <<>>
    /\ got = <<>>
    /\ fn_call = [op |-> "none"]
    /\ fn_ret = [op |-> "none"]

\* AgentOrchestrator.register_agent, called while the application starts
\* (main.py registers before any request is served).  agent is the set of
\* actions the registered object has.
RegisterAgent(name, agent) ==
    /\ \A r \in Runs : run[r].pc = "idle"
    /\ agents' = Put(agents, name, agent)
    /\ UNCHANGED <<task_queue, run, analysis_results_store, allocated, added, got,
                   fn_call, fn_ret>>

\* The request handler, had it left the first record to the background task.
AnalyzeRepositoryUnrecorded(r) ==
    /\ run[r].pc = "idle"
    /\ run' = [run EXCEPT ![r].pc = "scheduled"]
    /\ UNCHANGED <<agents, task_queue, analysis_results_store, allocated, added, got,
                   fn_call, fn_ret>>

\* POST /api/analyze: the record is stored as "processing" and
\* process_and_store is scheduled as a background task.
AnalyzeRepository(r) ==
    /\ run[r].pc = "idle"
    /\ analysis_results_store' = Put(analysis_results_store, r, [status |-> "processing"])
    /\ run' = [run EXCEPT ![r].pc = "scheduled"]
    /\ UNCHANGED <<agents, task_queue, allocated, added, got, fn_call, fn_ret>>

\* The loop, had it been `while True` with the empty result skipped by
\* `if not current_task: continue`: on an empty queue it spins and never returns.
ContinueLoopSpins(r, frame, tasks) ==
    LET d == NextToExecute(tasks, agents)
    IN  /\ task_queue' = d.rest
        /\ got' = got \o Tagged(d.dequeued, r)
        /\ run' = [run EXCEPT ![r] =
                      IF d.current_task = None
                      THEN [frame EXCEPT !.pc = "spinning"]
                      ELSE [frame EXCEPT !.pc = "awaiting", !.current_task = d.current_task]]
        /\ UNCHANGED analysis_results_store

\* The loop, had it started the call of a task without awaiting it and gone
\* on to the next task.
ContinueLoopUnawaited(r, frame, tasks) ==
    LET d == NextToExecute(tasks, agents)
        e == NextToExecute(d.rest, agents)
        both == d.current_task # None /\ e.current_task # None
    IN  /\ task_queue' = IF both THEN e.rest ELSE d.rest
        /\ got' = got \o Tagged(IF both THEN d.dequeued \o e.dequeued ELSE d.dequeued, r)
        /\ IF d.current_task = None
           THEN /\ run' = [run EXCEPT ![r] = Left(frame, "returned")]
                /\ analysis_results_store' =
                      Put(analysis_results_store, r,
                          [status |-> "completed", results |-> frame.results])
           ELSE /\ run' = [run EXCEPT ![r] =
                              [frame EXCEPT !.pc = "awaiting",
                                            !.current_task = IF both THEN e.current_task
                                                             ELSE d.current_task]]
                /\ UNCHANGED analysis_results_store

\* From the head of the while loop to the next await, or to the return of
\* process_codebase and the "completed" record of process_and_store.
ContinueLoop(r, frame, tasks) ==
    LET d == NextToExecute(tasks, agents)
    IN  /\ task_queue' = d.rest
        /\ got' = got \o Tagged(d.dequeued, r)
        /\ IF d.current_task = None
           THEN LET audit == ValidateCompleteCoverage(frame.results, frame.parsed_files)
                IN  /\ run' = [run EXCEPT ![r] = Left(frame, "returned")]
                    /\ analysis_results_store' =
                          Put(analysis_results_store, r,
                              [status |-> "completed", results |-> frame.results])
           ELSE /\ run' = [run EXCEPT ![r] =
                              [frame EXCEPT !.pc = "awaiting", !.current_task = d.current_task]]
                /\ UNCHANGED analysis_results_store

\* process_and_store starts: process_codebase creates and enqueues the seed
\* and runs to its first await.
ProcessAndStore(r) ==
    /\ run[r].pc = "scheduled"
    /\ \E al \in Alloc(1, (1..allocated) \ Live, allocated + 1) :
          LET new == MakeTasks(InitialSpecs("repo"), al.addrs)
              frame == [IdleFrame EXCEPT !.initial_task = new[1]]
          IN  /\ allocated' = al.next - 1
              /\ added' = added \o Tagged(new, r)
              /\ ContinueLoop(r, frame, AddAll(task_queue, new))
    /\ UNCHANGED <<agents, fn_call, fn_ret>>

\* The exception leaves process_codebase; process_and_store stores "failed".
Propagate(r, frame) ==
    /\ run' = [run EXCEPT ![r] = Left(frame, "raised")]
    /\ analysis_results_store' =
          Put(analysis_results_store, r, [status |-> "failed", error |-> "exception"])
    /\ UNCHANGED <<task_queue, allocated, added, got>>

\* The awaited call of the current task ends with outcome o: lines 72-87,
\* then the loop again.
Resume(r, o) ==
    LET f0 == run[r]
        t == f0.current_task
        f == IF o.raised THEN [f0 EXCEPT !.failed_calls = @ \cup {t.id}] ELSE f0
    IN  /\ f0.pc = "awaiting"
        /\ IF o.raised \/ (t.agent = "analyzer" /\ o.value.shape = "none")
           THEN \* the call raised, or 'parsed_files' in None raised (line 76)
                LET ex == ExceptClause(f.results, t)
                IN  IF ex.propagate
                    THEN Propagate(r, f)
                    ELSE /\ ContinueLoop(r, [f EXCEPT !.results = ex.results,
                                                      !.as_recorded = Put(@, t.id, ex.results[t.id])],
                                      task_queue)
                         /\ UNCHANGED <<allocated, added>>
           ELSE LET recorded == Put(f.results, t.id, o.value)
                    parsed_files ==
                        IF t.agent = "analyzer" /\ o.value.shape = "mapping"
                        THEN o.value.parsed_files ELSE f.parsed_files
                    f1 == [f EXCEPT !.results = recorded, !.parsed_files = parsed_files,
                                    !.as_recorded = Put(@, t.id, o.value)]
                    fu == GenerateFollowUpTasks(t, o.value, parsed_files)
                IN  IF fu.raised
                    THEN Propagate(r, f1)
                    ELSE \E al \in Alloc(Len(fu.specs), (1..allocated) \ Live, allocated + 1) :
                            LET new == MakeTasks(fu.specs, al.addrs)
                                f2 == [f1 EXCEPT
                                         !.results = Put(recorded, t.id, fu.result),
                                         !.follow_up_tasks = new,
                                         !.task = IF new = <<>> THEN f.task
                                                  ELSE new[Len(new)]]
                            IN  /\ allocated' = al.next - 1
                                /\ added' = added \o Tagged(new, r)
                                /\ ContinueLoop(r, f2, AddAll(task_queue, new))
        /\ UNCHANGED <<agents, fn_call, fn_ret>>

\* One request at a time: the runs of Spec.
SpecRuns == {1}

Next ==
    \/ \E name \in AgentNames : \E agent \in {{}, {ActionOf(name)}} : RegisterAgent(name, agent)
    \/ \E r \in SpecRuns : AnalyzeRepository(r)
    \/ \E r \in SpecRuns : ProcessAndStore(r)
    \/ \E r \in SpecRuns :
          /\ run[r].pc = "awaiting"
          /\ \E o \in ExecOutcomes(run[r].current_task) : Resume(r, o)

Spec == Init /\ [][Next]_vars
\* The event loop resumes a coroutine whose awaited call has ended, and runs a
\* scheduled background task.
RunStep(r) ==
    \/ ProcessAndStore(r)
    \/ /\ run[r].pc = "awaiting"
       /\ \E o \in ExecOutcomes(run[r].current_task) : Resume(r, o)

FairSpec == Spec /\ \A r \in SpecRuns : WF_vars(RunStep(r))

-----------------------------------------------------------------------------
(* Two requests on the one orchestrator of the application *)

\* main.py registers the three agents before the first request is served.
RegisteredAgents == [name \in AgentNames |-> {ActionOf(name)}]

\* What the awaited calls do in the overlapping runs: the analysis finds both
\* files or raises; the architect returns two boundaries with one file each,
\* or one boundary with both; the developer returns files or raises.
OverlapOutcomes(task) ==
    CASE task.agent = "analyzer" -> {Raised, Returned(AnalyzerResult("mapping", Files))}
      [] task.agent = "architect" ->
            {Returned(ArchitectResult("mapping", FALSE, SomeList(l), NoList)) :
                l \in {<<Boundary(ServiceNames[1], "ok", {"a.py"}),
                         Boundary(ServiceNames[2], "ok", {"b.py"})>>,
                       <<Boundary(ServiceNames[1], "ok", Files)>>}}
      [] OTHER -> {Raised,
                   Returned(DeveloperResult(task.params.service_boundary.name,
                                            <<GeneratedFile("svc/main.py", "code")>>))}

InitOverlap ==
    /\ agents = RegisteredAgents
    /\ task_queue = <<>>
    /\ run = [r \in Runs |-> IdleFrame]
    /\ analysis_results_store = EmptyDict
    /\ allocated = 0
    /\ added = <<>>
    /\ got = <<>>
    /\ fn_call = [op |-> "none"]
    /\ fn_ret = [op |-> "none"]

NextOverlap ==
    \/ \E r \in Runs : AnalyzeRepository(r)
    \/ \E r \in Runs : ProcessAndStore(r)
    \/ \E r \in Runs :
          /\ run[r].pc = "awaiting"
          /\ \E o \in OverlapOutcomes(run[r].current_task) : Resume(r, o)

SpecOverlap == InitOverlap /\ [][NextOverlap]_vars
-----------------------------------------------------------------------------
(* TaskQueue on its own: any interleaving of add_task and get_next_task *)

\* add_task with a new Task object of some agent.
QueueAdd(name) ==
    /\ Len(added) < MaxQueueOps
    /\ LET task == Task(name, ActionOf(name), EmptyDict, Len(added) + 1)
       IN  /\ task_queue' = AddTask(task_queue, task)
           /\ added' = Append(added, [task |-> task, by |-> 0])
    /\ fn_ret' = [op |-> "add_task"]
    /\ UNCHANGED <<agents, run, analysis_results_store, allocated, got, fn_call>>

\* get_next_task, also on an empty queue.
QueueGet ==
    LET g == GetNextTask(task_queue)
    IN  /\ task_queue' = g.rest
        /\ got' = IF g.task = None THEN got ELSE Append(got, [task |-> g.task, by |-> 0])
        /\ fn_ret' = [op |-> "get_next_task", value |-> g.task,
                      was_empty |-> IsEmpty(task_queue)]
        /\ UNCHANGED <<agents, run, analysis_results_store, allocated, added, fn_call>>

NextQueue == (\E name \in AgentNames : QueueAdd(name)) \/ QueueGet

SpecQueue == Init /\ [][NextQueue]_vars

-----------------------------------------------------------------------------
(* _ensure_complete_file_mapping on its own, over all bounded inputs *)

InitMapping ==
    /\ agents = EmptyDict
    /\ task_queue = <<>>
    /\ run = [r \in Runs |-> IdleFrame]
    /\ analysis_results_store = EmptyDict
    /\ allocated = 0
    /\ added = <<>>
    /\ got = <<>>
    /\ fn_call \in {[op |-> "_ensure_complete_file_mapping",
                     service_list |-> l, parsed_files |-> p] :
                        l \in BoundaryLists(MaxServices), p \in SUBSET Files}
    /\ fn_ret = [op |-> "none"]

CallEnsure ==
    /\ fn_ret.op = "none"
    /\ fn_ret' = [op |-> "_ensure_complete_file_mapping",
                  out |-> EnsureCompleteFileMapping(fn_call.service_list, fn_call.parsed_files)]
    /\ UNCHANGED <<agents, task_queue, run, analysis_results_store, allocated, added, got,
                   fn_call>>

SpecMapping == InitMapping /\ [][CallEnsure]_vars
-----------------------------------------------------------------------------
(* Claims about _ensure_complete_file_mapping (SpecMapping) *)

EnsureReturned == fn_ret.op = "_ensure_complete_file_mapping" /\ ~fn_ret.out.raised

\* The union of the files lists of a boundary list.
OwnedFiles(service_list) ==
    UNION {ServiceGetFiles(service_list[i]).value : i \in DOMAIN service_list}

\* C1: after _ensure_complete_file_mapping(service_list, parsed_files) has
\* returned, every path of parsed_files is in the files list of at least one
\* boundary of the returned list.
C1_EveryFileOwned ==
    EnsureReturned =>
        \A p \in fn_call.parsed_files :
            \E i \in DOMAIN fn_ret.out.value : p \in ServiceGetFiles(fn_ret.out.value[i]).value

\* C1 witness: a call returned for inputs that left a repository file
\* unowned, so that the synthetic boundary was appended.
C1_Witness ==
    /\ EnsureReturned
    /\ fn_call.service_list # <<>>
    /\ fn_call.parsed_files \ OwnedFiles(fn_call.service_list) # {}
    /\ Len(fn_ret.out.value) = Len(fn_call.service_list) + 1

\* C2 as stated: after the call the union of the files of the returned
\* boundaries equals the file set exactly (nothing missing, nothing outside it).
C2_UnionEqualsFileSet ==
    EnsureReturned => OwnedFiles(fn_ret.out.value) = fn_call.parsed_files

\* C2 amended: after the call the union of the files of the returned
\* boundaries is the file set together with the paths the given boundaries
\* already listed: no path of the file set is missing, and a path outside it
\* is present exactly when a given boundary listed it.
C2_UnionIsFileSetPlusGiven ==
    EnsureReturned =>
        OwnedFiles(fn_ret.out.value)
            = fn_call.parsed_files \cup OwnedFiles(fn_call.service_list)

\* C2 witness: a call returned for boundaries that list a path outside the
\* file set and leave a file of the set unowned.
C2_Witness ==
    /\ EnsureReturned
    /\ Ghost \in OwnedFiles(fn_call.service_list)
    /\ fn_call.parsed_files \ OwnedFiles(fn_call.service_list) # {}
    /\ Ghost \in OwnedFiles(fn_ret.out.value)
-----------------------------------------------------------------------------
(* Claims about process_codebase (Spec, FairSpec) *)

IsError(outcome) == "error" \in DOMAIN outcome

\* The tasks of a history of calls.
TasksOf(history) == [i \in 1..Len(history) |-> history[i].task]

\* The tasks run r gave to add_task, and those it got from get_next_task.
EnqueuedBy(r) == {added[i].task : i \in {j \in DOMAIN added : added[j].by = r}}
DequeuedBy(r) == {got[i].task : i \in {j \in DOMAIN got : got[j].by = r}}

RefactorTasks(r) == {t \in EnqueuedBy(r) : t.agent = "developer" /\ t.action = "refactor_code"}

\* The follow-up tasks of a successful identify-boundaries task of run r have
\* been enqueued.
IdentifyFollowedUp(r) ==
    /\ run[r].pc # "raised"
    /\ \E id \in DOMAIN run[r].results :
          id[1] = "architect" /\ ~IsError(run[r].results[id])

\* The refactor tasks of run r whose original_code holds file f.
TasksHolding(r, f) == {t \in RefactorTasks(r) : f \in t.params.original_code}

ReturnedAfterDraining(r) ==
    /\ run[r].pc = "returned"
    /\ EnqueuedBy(r) \subseteq DequeuedBy(r)
    /\ \A t \in DequeuedBy(r) : Executable(t, agents) => t.id \in DOMAIN run[r].results
    /\ analysis_results_store[r].status = "completed"
    /\ analysis_results_store[r].results = run[r].results

\* C4: when the operation of a dequeued task raises, a failure outcome is
\* recorded under that task's id and the exception does not leave
\* process_codebase; the run goes on to dequeue and execute every task still
\* pending and returns its outcome mapping normally.
C4_FailureDoesNotAbort ==
    \A r \in Runs :
        /\ [](\A id \in run[r].failed_calls :
                /\ run[r].pc # "raised"
                /\ id \in DOMAIN run[r].results
                /\ run[r].results[id] = ErrorOutcome)
        /\ (run[r].failed_calls # {}) ~> ReturnedAfterDraining(r)

\* C4 witness: a run returned in which a refactor call raised and a sibling
\* refactor task, dequeued after it, was executed and has its result recorded.
C4_Witness ==
    \E r \in Runs :
        /\ run[r].pc = "returned"
        /\ \E i, j \in DOMAIN got :
              /\ i < j
              /\ got[i].task.agent = "developer" /\ got[j].task.agent = "developer"
              /\ got[i].task.id \in run[r].failed_calls
              /\ got[j].task.id \in DOMAIN run[r].results
              /\ ~IsError(run[r].results[got[j].task.id])

\* C5: a dequeued task whose agent is not registered, or whose agent lacks the
\* action, gets a failure outcome under its id, so that every task the run
\* dequeued has an entry in the mapping the run returns.
C5_EveryDequeuedTaskRecorded ==
    \A r \in Runs :
        run[r].pc = "returned" =>
            \A t \in DequeuedBy(r) :
                /\ t.id \in DOMAIN run[r].results
                /\ ~Executable(t, agents) => IsError(run[r].results[t.id])

RunEnded(r) == run[r].pc \in {"returned", "raised"}

\* C6: given that every collaborator call returns or raises, a started
\* process_codebase ends (follow-up derivation has no cycle), and when it
\* returns the queue is empty.
C6_Terminates ==
    \A r \in Runs :
        /\ (run[r].pc = "scheduled") ~> RunEnded(r)
        /\ [](run[r].pc = "returned" => IsEmpty(task_queue))

\* C6 witness: a run went through the three stages (analyze, identify,
\* refactor) and returned with the queue empty.
C6_Witness ==
    \E r \in Runs :
        /\ run[r].pc = "returned"
        /\ IsEmpty(task_queue)
        /\ \A name \in AgentNames : \E id \in DOMAIN run[r].results : id[1] = name

\* C7: no failure other than repository acquisition aborts the run: also for
\* a result that follow-up derivation cannot interpret, no exception leaves
\* process_codebase.
C7_NoExceptionLeavesRun ==
    \A r \in Runs : run[r].pc # "raised"

\* C8: when the analyze call (repository acquisition) raises, the run does
\* not return a normal outcome mapping: the stored record of the request ends
\* as "failed", never "completed".
C8_AcquisitionFailureIsFatal ==
    \A r \in Runs :
        (\E id \in run[r].failed_calls : id[1] = "analyzer") =>
            /\ run[r].pc # "returned"
            /\ analysis_results_store[r].status = "failed"

\* C10: an identify-boundaries task is executed only once the analyze outcome
\* is recorded, and a refactor task only once the identify-boundaries outcome
\* is recorded.
C10_StageOrder ==
    \A r \in Runs :
        run[r].pc = "awaiting" =>
            /\ run[r].current_task.agent = "architect" =>
                  \E id \in DOMAIN run[r].results : id[1] = "analyzer"
            /\ run[r].current_task.agent = "developer" =>
                  \E id \in DOMAIN run[r].results : id[1] = "architect"

\* C10 witness: a refactor task is being executed while another refactor
\* task is still in the queue.
C10_Witness ==
    \E r \in Runs :
        /\ run[r].pc = "awaiting"
        /\ run[r].current_task.agent = "developer"
        /\ task_queue # <<>>

-----------------------------------------------------------------------------
(* Claims about TaskQueue (SpecQueue) *)

\* C9: under any interleaving of add_task and get_next_task, the tasks
\* returned so far followed by the tasks still queued are the tasks added, in
\* the order they were added: a task added later is returned after every task
\* that was already queued.
C9_FIFO ==
    TasksOf(got) \o task_queue = TasksOf(added)

\* C9 witness: add_task was just called after earlier tasks had been
\* returned, and the queue holds an older task in front of the new one.
C9_Witness ==
    /\ fn_ret.op = "add_task"
    /\ Len(got) >= 1
    /\ Len(task_queue) >= 2
-----------------------------------------------------------------------------
(* Claims about the follow-up tasks of identify_service_boundaries (Spec) *)

\* The refactor tasks run r gave to add_task, in call order.
RefactorSeq(r) ==
    TasksOf(SelectSeq(added, LAMBDA e : e.by = r /\ e.task.agent = "developer"
                                         /\ e.task.action = "refactor_code"))

\* The recorded outcome of the identify-boundaries task of run r.
IdentifyOutcome(r) ==
    run[r].results[CHOOSE id \in DOMAIN run[r].results : id[1] = "architect"]

\* The coverage-completed boundary list of run r: the list the recorded
\* outcome holds, or (when the outcome holds no list) the list made of the
\* synthetic boundary alone.
CompletedList(r) ==
    LET given == ServiceListOf(IdentifyOutcome(r))
        unowned == run[r].parsed_files \ OwnedFiles(given)
    IN  IF unowned # {} THEN Append(given, SharedService(unowned)) ELSE given

\* The file set a boundary owns: the discovered files its files list names.
OwnedBy(service, r) == ServiceGetFiles(service).value \cap run[r].parsed_files

\* C11: after a successful identify-boundaries task, the refactor tasks
\* enqueued are, in the order of the coverage-completed boundary list, one
\* task for each boundary that owns at least one discovered file and none for
\* a boundary that owns none; each task carries its boundary and the files the
\* boundary owns, and the task of SharedOrUnassigned, if any, is the last.
C11_OneTaskPerNonEmptyBoundary ==
    \A r \in Runs :
        IdentifyFollowedUp(r) =>
            LET with_files == SelectSeq(CompletedList(r), LAMBDA s : OwnedBy(s, r) # {})
                tasks == RefactorSeq(r)
            IN  /\ Len(tasks) = Len(with_files)
                /\ \A i \in DOMAIN tasks :
                      /\ tasks[i].params.service_boundary = with_files[i]
                      /\ tasks[i].params.original_code = OwnedBy(with_files[i], r)
                      /\ tasks[i].params.service_boundary.name = "SharedOrUnassigned"
                            => i = Len(tasks)

\* C11 witness: the architect returned two boundaries, the first owning a
\* discovered file and the second listing only a path that is no discovered
\* file; the tasks enqueued are the one of the first boundary and then the
\* one of SharedOrUnassigned.
C11_Witness ==
    \E r \in Runs :
        /\ IdentifyFollowedUp(r)
        /\ run[r].parsed_files = Files
        /\ Len(CompletedList(r)) = 3
        /\ OwnedBy(CompletedList(r)[1], r) # {}
        /\ ServiceGetFiles(CompletedList(r)[2]).value = {Ghost}
        /\ Len(RefactorSeq(r)) = 2
        /\ RefactorSeq(r)[1].params.service_boundary.name = "UserService"
        /\ RefactorSeq(r)[2].params.service_boundary.name = "SharedOrUnassigned"
-----------------------------------------------------------------------------
(* Claims about task ids (SpecOverlap) *)

\* The Task objects run r created (each add_task call of the run is given a
\* new object), and those it dequeued, in call order.
CreatedBy(r) == TasksOf(SelectSeq(added, LAMBDA e : e.by = r))
ExecutedBy(r) == TasksOf(SelectSeq(got, LAMBDA e : e.by = r))

PairwiseDistinctIds(tasks) ==
    \A i, j \in DOMAIN tasks : i # j => tasks[i].id # tasks[j].id

-----------------------------------------------------------------------------
(* Claims about the value process_codebase returns (Spec) *)

\* The dict process_codebase returned (line 93), as process_and_store stored it.
ReturnValue(r) == analysis_results_store[r].results

\* C13: the value process_codebase returns consists of the mapping from task
\* id to outcome together with the summary of the terminal audit: besides the
\* entries of the tasks the run dequeued, it holds the lists of succeeded and
\* failed services that _validate_complete_coverage computed.
C13_ReturnCarriesAuditSummary ==
    \A r \in Runs :
        run[r].pc = "returned" =>
            \E k \in DOMAIN ReturnValue(r) :
                /\ k \notin {t.id : t \in DequeuedBy(r)}
                /\ ReturnValue(r)[k]
                      = ValidateCompleteCoverage(run[r].results, run[r].parsed_files)
-----------------------------------------------------------------------------
(* DeveloperAgent: the text of an LLM response and json.loads *)

\* A response text is kept as the sequence of its lexical pieces: the
\* punctuation characters of JSON, string literals "..." (v is the text
\* between the quotes), words of prose, markdown fences and newlines.  Two
\* neighbouring pieces have nothing between them.
Tok(k, v) == [k |-> k, v |-> v]
P(c) == Tok("punct", c)
S(text) == Tok("str", text)
W(word) == Tok("word", word)
\* The opening fence of a json block (three backticks and the word json), and
\* a fence of three backticks alone.
FenceJson == Tok("fence", "json")
Fence == Tok("fence", "")
NL == Tok("nl", "\n")

\* llm_response.get("content", "") when the response holds "content": None.
NoText == <<Tok("none", "None")>>
IsText(content) == content # NoText

\* The values json.loads builds.
JStr(text) == [t |-> "str", v |-> text]
JList(items) == [t |-> "list", items |-> items]
JObj(keys, vals) == [t |-> "dict", keys |-> keys, vals |-> vals]

\* key in d, and d[key] (the last member with the key wins, as in json.loads).
HasKey(d, key) == \E i \in DOMAIN d.keys : d.keys[i] = key
GetKey(d, key) ==
    d.vals[CHOOSE i \in DOMAIN d.keys :
              d.keys[i] = key /\ \A j \in DOMAIN d.keys : d.keys[j] = key => j <= i]

\* The JSON grammar over the pieces: [ok, val, next].
ParseFail == [ok |-> FALSE, val |-> JStr(""), next |-> 0]
ParseOk(val, next) == [ok |-> TRUE, val |-> val, next |-> next]

RECURSIVE ParseValue(_, _)
RECURSIVE ParseItems(_, _, _)
RECURSIVE ParseMembers(_, _, _, _)
ParseValue(toks, i) ==
    IF i > Len(toks) THEN ParseFail
    ELSE IF toks[i].k = "str" THEN ParseOk(JStr(toks[i].v), i + 1)
    ELSE IF toks[i] = P("[")
    THEN IF i + 1 <= Len(toks) /\ toks[i + 1] = P("]")
         THEN ParseOk(JList(<<>>), i + 2)
         ELSE ParseItems(toks, i + 1, <<>>)
    ELSE IF toks[i] = P("{")
    THEN IF i + 1 <= Len(toks) /\ toks[i + 1] = P("}")
         THEN ParseOk(JObj(<<>>, <<>>), i + 2)
         ELSE ParseMembers(toks, i + 1, <<>>, <<>>)
    ELSE ParseFail
ParseItems(toks, i, items) ==
    LET v == ParseValue(toks, i)
    IN  IF ~v.ok \/ v.next > Len(toks) THEN ParseFail
        ELSE IF toks[v.next] = P(",") THEN ParseItems(toks, v.next + 1, Append(items, v.val))
        ELSE IF toks[v.next] = P("]") THEN ParseOk(JList(Append(items, v.val)), v.next + 1)
        ELSE ParseFail
ParseMembers(toks, i, keys, vals) ==
    IF i + 1 > Len(toks) \/ toks[i].k # "str" \/ toks[i + 1] # P(":") THEN ParseFail
    ELSE LET v == ParseValue(toks, i + 2)
         IN  IF ~v.ok \/ v.next > Len(toks) THEN ParseFail
             ELSE IF toks[v.next] = P(",")
             THEN ParseMembers(toks, v.next + 1, Append(keys, toks[i].v), Append(vals, v.val))
             ELSE IF toks[v.next] = P("}")
             THEN ParseOk(JObj(Append(keys, toks[i].v), Append(vals, v.val)), v.next + 1)
             ELSE ParseFail

\* json.loads: whitespace between the pieces is skipped; the whole text must
\* be one value.  Raised stands for json.JSONDecodeError.
JsonLoads(text) ==
    LET toks == SelectSeq(text, LAMBDA t : t.k # "nl")
        v == ParseValue(toks, 1)
    IN  IF v.ok /\ v.next = Len(toks) + 1 THEN Returned(v.val) ELSE Raised

-----------------------------------------------------------------------------
(* DeveloperAgent: the helpers of _robust_json_extraction *)

\* The positions of a piece in a text.
Positions(text, tok) == {i \in DOMAIN text : text[i] = tok}
Min(set) == CHOOSE x \in set : \A y \in set : x <= y
Max(set) == CHOOSE x \in set : \A y \in set : y <= x

\* content[-1:].strip(): the last character of the text.
LastChar(content) ==
    IF content = <<>> THEN <<>>
    ELSE LET last == content[Len(content)]
         IN  IF last.k = "nl" THEN <<>>
             ELSE IF last.k = "punct" THEN <<last>>
             ELSE <<Tok("char", last.k)>>

\* DeveloperAgent._extract_json_from_response.  With a json fence in the
\* text, line 177 looks for six backticks followed by json: where it finds
\* them, the closing fence is found at the same index and the slice is
\* empty; where it does not, start_idx is -1, find("```", -1) is -1 and the
\* slice content[-1:] is the last character.  Raised: content is no string.
ExtractJsonFromResponse(content) ==
    IF ~IsText(content) THEN Raised
    ELSE IF Positions(content, FenceJson) # {}
    THEN IF \E i \in DOMAIN content :
                i > 1 /\ content[i] = FenceJson /\ content[i - 1] = Fence
         THEN Returned(<<>>)
         ELSE Returned(LastChar(content))
    ELSE LET opening == Positions(content, P("{"))
             closing == Positions(content, P("}"))
         IN  IF opening # {} /\ closing # {}
             THEN Returned(SubSeq(content, Min(opening), Max(closing)))
             ELSE Returned(<<>>)

\* The string texts that begin with a character of the class [,}\]:\s].
StartsSpecial == {" hi"}

\* Whether the piece at position i begins with a character of that class.
BeginsSpecial(text, i) ==
    /\ i <= Len(text)
    /\ text[i] \in {P(","), P("}"), P("]"), P(":"), NL}

\* DeveloperAgent._clean_json_string.  The substitutions of lines 160 and
\* 163 put back the character they match.  Line 167 puts a backslash before
\* every quote that no character of the class follows: the opening quote of
\* a string literal unless its text begins with one, the closing quote unless
\* the next piece does.  Such a literal is no JSON string any more ("junk").
TrimToBraces(json_str) ==
    LET opening == Positions(json_str, P("{"))
        from_brace == IF opening # {} /\ Min(opening) > 1
                      THEN SubSeq(json_str, Min(opening), Len(json_str))
                      ELSE json_str
        closing == Positions(from_brace, P("}"))
    IN  IF closing # {} THEN SubSeq(from_brace, 1, Max(closing)) ELSE from_brace

\* line 167
EscapeQuotes(json_str) ==
    [i \in DOMAIN json_str |->
        IF json_str[i].k = "str"
           /\ \/ json_str[i].v \notin StartsSpecial
              \/ ~BeginsSpecial(json_str, i + 1)
        THEN Tok("junk", json_str[i].v)
        ELSE json_str[i]]

\* line 170: a comma before } or ], whitespace between them allowed
RemoveTrailingCommas(json_str) ==
    LET NextSolid(i) == IF \E j \in (i + 1)..Len(json_str) : json_str[j].k # "nl"
                        THEN Min({j \in (i + 1)..Len(json_str) : json_str[j].k # "nl"})
                        ELSE 0
        kept == {i \in DOMAIN json_str :
                    ~ /\ json_str[i] = P(",")
                      /\ NextSolid(i) # 0
                      /\ json_str[NextSolid(i)] \in {P("}"), P("]")}}
        Nth(n) == CHOOSE i \in kept : Cardinality({j \in kept : j < i}) = n - 1
    IN  [n \in 1..Cardinality(kept) |-> json_str[Nth(n)]]

CleanJsonString(json_str) == RemoveTrailingCommas(EscapeQuotes(TrimToBraces(json_str)))

\* Lines 111-114 and 125-128 on the value json.loads returned:
\* [status, files].  "files" in llm_json is a key test on a dict, a member
\* test on a list and a substring test on a string; llm_json["files"] raises
\* TypeError on a list or a string.
ValidFiles(llm_json) ==
    IF llm_json.t = "list"
    THEN IF \E i \in DOMAIN llm_json.items : llm_json.items[i] = JStr("files")
         THEN [status |-> "raised", files |-> <<>>]
         ELSE [status |-> "nothing", files |-> <<>>]
    ELSE IF llm_json.t = "str"
    THEN IF llm_json.v = "files"
         THEN [status |-> "raised", files |-> <<>>]
         ELSE [status |-> "nothing", files |-> <<>>]
    ELSE IF HasKey(llm_json, "files") /\ GetKey(llm_json, "files").t = "list"
    THEN LET valid_files ==
                 SelectSeq(GetKey(llm_json, "files").items,
                           LAMBDA f : f.t = "dict" /\ HasKey(f, "path") /\ HasKey(f, "content"))
         IN  IF valid_files # <<>>
             THEN [status |-> "found", files |-> valid_files]
             ELSE [status |-> "nothing", files |-> <<>>]
    ELSE [status |-> "nothing", files |-> <<>>]

-----------------------------------------------------------------------------
(* DeveloperAgent._robust_json_extraction *)

NothingFound == [status |-> "nothing", files |-> <<>>]
MethodRaised == [status |-> "raised", files |-> <<>>]

\* What a method makes of the outcome of json.loads: an exception goes to
\* its except clause.
FilesOfLoaded(llm_json) == IF llm_json.raised THEN MethodRaised ELSE ValidFiles(llm_json.value)

\* Method 1, lines 107-116: [status, files]; "raised" is an exception that
\* the except clause of the method logged.
Method1(content) ==
    LET json_str == ExtractJsonFromResponse(content)
    IN  IF json_str.raised THEN MethodRaised
        ELSE IF json_str.value = <<>> THEN NothingFound
        ELSE FilesOfLoaded(JsonLoads(json_str.value))

\* Method 2, lines 119-130
Method2(content) ==
    LET json_str == ExtractJsonFromResponse(content)
    IN  IF json_str.raised THEN MethodRaised
        ELSE IF json_str.value = <<>> THEN NothingFound
        ELSE FilesOfLoaded(JsonLoads(CleanJsonString(json_str.value)))

\* DeveloperAgent._extract_files_with_regex.  The character set that opens
\* at [^" in file_pattern (line 203) is never closed, so re.findall raises
\* re.error for every content; the except clause of line 219 returns [].
ExtractFilesWithRegex(content) == Returned(<<>>)

\* The lines of a text: content.split('\n').
RECURSIVE Lines(_)
Lines(text) ==
    IF Positions(text, NL) = {} THEN <<text>>
    ELSE <<SubSeq(text, 1, Min(Positions(text, NL)) - 1)>>
            \o Lines(SubSeq(text, Min(Positions(text, NL)) + 1, Len(text)))

\* re.search(r'"path"\s*:\s*"([^"]+)"', line): the positions of a match.
PathMatches(line) ==
    {i \in DOMAIN line :
        /\ i + 2 <= Len(line)
        /\ line[i] = S("path") /\ line[i + 1] = P(":")
        /\ line[i + 2].k = "str" /\ line[i + 2].v # ""}

\* re.search(r'"content"\s*:\s*"(.*)"', line): the match runs to the last
\* quote of the line.
ContentMatches(line) ==
    {i \in DOMAIN line :
        /\ i + 2 <= Len(line)
        /\ line[i] = S("content") /\ line[i + 1] = P(":") /\ line[i + 2].k = "str"}

\* A file of the line-by-line method: the content is the list of its lines.
LineFile(path, content_lines) ==
    JObj(<<"path", "content">>, <<JStr(path), [t |-> "lines", lines |-> content_lines]>>)

\* The loop of lines 232-257 over the lines still to read:
\* acc = [files, path ("" before the first path), content_lines, in_content].
RECURSIVE LineLoop(_, _)
LineLoop(lines, acc) ==
    IF lines = <<>>
    THEN IF acc.path # ""
         THEN Append(acc.files, LineFile(acc.path, acc.content_lines))
         ELSE acc.files
    ELSE LET line == Head(lines)
             has_colon == Positions(line, P(":")) # {}
         IN  IF Positions(line, S("path")) # {} /\ has_colon
             THEN IF PathMatches(line) # {}
                  THEN LineLoop(Tail(lines),
                         [files |-> IF acc.path # ""
                                    THEN Append(acc.files, LineFile(acc.path, acc.content_lines))
                                    ELSE acc.files,
                          path |-> line[Min(PathMatches(line)) + 2].v,
                          content_lines |-> <<>>,
                          in_content |-> FALSE])
                  ELSE LineLoop(Tail(lines), acc)
             ELSE IF Positions(line, S("content")) # {} /\ has_colon
             THEN LineLoop(Tail(lines),
                    [acc EXCEPT !.in_content = TRUE,
                                !.content_lines =
                                    IF ContentMatches(line) # {}
                                    THEN Append(@, SubSeq(line, Min(ContentMatches(line)) + 2,
                                                          Max({j \in DOMAIN line : line[j].k = "str"})))
                                    ELSE @])
             ELSE IF acc.in_content /\ acc.path # ""
             THEN LineLoop(Tail(lines),
                    [acc EXCEPT !.content_lines =
                        Append(@, SelectSeq(line, LAMBDA t : t # P(",")))])
             ELSE LineLoop(Tail(lines), acc)

\* DeveloperAgent._extract_files_line_by_line; Raised never leaves it: the
\* except clause of line 268 returns [] (content is no string).
ExtractFilesLineByLine(content) ==
    IF ~IsText(content) THEN Returned(<<>>)
    ELSE Returned(LineLoop(Lines(content),
                           [files |-> <<>>, path |-> "", content_lines |-> <<>>,
                            in_content |-> FALSE]))

\* `except Exception as e: logger.debug(...)` around a method (lines 115, 129,
\* 135, 141): the exception ends there.  TryExceptReraises is the clause with
\* a `raise` after the log line.
TryExceptReraises(outcome) == outcome
TryExcept(outcome) == IF outcome.status = "raised" THEN NothingFound ELSE outcome

\* Methods 3 and 4, lines 133-142: `return helper(content)` inside a try.
Method3(content) ==
    IF ExtractFilesWithRegex(content).raised THEN MethodRaised
    ELSE [status |-> "returned", files |-> ExtractFilesWithRegex(content).value]
Method4(content) ==
    IF ExtractFilesLineByLine(content).raised THEN MethodRaised
    ELSE [status |-> "returned", files |-> ExtractFilesLineByLine(content).value]

\* DeveloperAgent._robust_json_extraction: the list it returns (or raised,
\* should an exception leave it) and the methods it went through, in order.
\* Methods 1 and 2 return only a non-empty list; methods 3 and 4 return the
\* list of their helper, empty or not.
Extraction(value, attempted) == [raised |-> FALSE, value |-> value, attempted |-> attempted]
ExtractionRaised(attempted) == [raised |-> TRUE, value |-> <<>>, attempted |-> attempted]

Cascade(m1, m2, m3, m4) ==
    IF m1.status = "raised" THEN ExtractionRaised(<<1>>)
    ELSE IF m1.status = "found" THEN Extraction(m1.files, <<1>>)
    ELSE IF m2.status = "raised" THEN ExtractionRaised(<<1, 2>>)
    ELSE IF m2.status = "found" THEN Extraction(m2.files, <<1, 2>>)
    ELSE IF m3.status = "raised" THEN ExtractionRaised(<<1, 2, 3>>)
    ELSE IF m3.status = "returned" THEN Extraction(m3.files, <<1, 2, 3>>)
    ELSE IF m4.status = "raised" THEN ExtractionRaised(<<1, 2, 3, 4>>)
    ELSE IF m4.status = "returned" THEN Extraction(m4.files, <<1, 2, 3, 4>>)
    ELSE Extraction(<<>>, <<1, 2, 3, 4>>)

RobustJsonExtraction(content) ==
    Cascade(TryExcept(Method1(content)), TryExcept(Method2(content)),
            TryExcept(Method3(content)), TryExcept(Method4(content)))
-----------------------------------------------------------------------------
(* _robust_json_extraction on its own, over bounded response texts *)

MaxRecords == 2       \* most file records in the files list of a response

Braced(pieces) == <<P("{")>> \o pieces \o <<P("}")>>

\* A file record of a response: its pieces and the value it stands for.
PathContent(path, content) ==
    <<S("path"), P(":"), S(path), P(","), S("content"), P(":"), S(content)>>
FileRecord(path, content) ==
    [pieces |-> Braced(PathContent(path, content)),
     val |-> JObj(<<"path", "content">>, <<JStr(path), JStr(content)>>)]
\* {"path": "a.txt"} (no content), and {"path": ["a.txt"], "content": "hi"}
PathOnlyRecord ==
    [pieces |-> Braced(<<S("path"), P(":"), S("a.txt")>>),
     val |-> JObj(<<"path">>, <<JStr("a.txt")>>)]
ListPathRecord ==
    [pieces |-> Braced(<<S("path"), P(":"), P("["), S("a.txt"), P("]"), P(","),
                         S("content"), P(":"), S("hi")>>),
     val |-> JObj(<<"path", "content">>, <<JList(<<JStr("a.txt")>>), JStr("hi")>>)]

RecordChoices ==
    {FileRecord("a.txt", "hi"), FileRecord("b.txt", "hi"), FileRecord("a.txt", " hi"),
     PathOnlyRecord, ListPathRecord}

\* r1, r2, ... (comma between two records, and after the last one if asked)
RECURSIVE Joined(_, _)
Joined(records, comma_after_last) ==
    IF records = <<>> THEN <<>>
    ELSE Head(records).pieces
            \o (IF Tail(records) # <<>> \/ comma_after_last THEN <<P(",")>> ELSE <<>>)
            \o Joined(Tail(records), comma_after_last)

\* {"files": [r1, r2]}; defect "comma_before_brace" writes {"files": [r1, r2],}
\* and defect "comma_in_record" ends the last record with ,}
DocumentText(records, defect) ==
    LET last == records[Len(records)]
        shown == IF defect = "comma_in_record"
                 THEN [records EXCEPT ![Len(records)] =
                         [last EXCEPT !.pieces =
                             SubSeq(@, 1, Len(@) - 1) \o <<P(","), P("}")>>]]
                 ELSE records
    IN  Braced(<<S("files"), P(":"), P("[")>> \o Joined(shown, FALSE) \o <<P("]")>>
               \o (IF defect = "comma_before_brace" THEN <<P(",")>> ELSE <<>>))

\* What the LLM puts around the document.
Wrappers ==
    {"bare", "prose_before", "prose_after", "braces_before", "fenced", "fenced_open",
     "six_backticks"}
Wrapped(wrapper, text) ==
    CASE wrapper = "bare" -> text
      [] wrapper = "prose_before" -> <<W("Here"), W("it"), W("is"), NL>> \o text
      [] wrapper = "prose_after" -> text \o <<NL, W("Done")>>
      [] wrapper = "braces_before" -> <<W("Note"), P("{"), W("x"), P("}"), NL>> \o text
      [] wrapper = "fenced" -> <<FenceJson, NL>> \o text \o <<NL, Fence>>
      [] wrapper = "fenced_open" -> <<FenceJson, NL>> \o text
      [] OTHER -> <<Fence, FenceJson, NL>> \o text \o <<NL, Fence>>

\* A call of _robust_json_extraction and how its content was written.
ExtractionCall(content, kind, wrapper, records) ==
    [op |-> "_robust_json_extraction", content |-> content, kind |-> kind,
     wrapper |-> wrapper, records |-> [i \in DOMAIN records |-> records[i].val]]

\* Texts that hold no document: no string at all, the empty string, prose,
\* one path/content fragment between broken braces, the fragment on two
\* lines, JSON values that are no object with a files list.
OtherTexts ==
    {ExtractionCall(NoText, "none", "bare", <<>>),
     ExtractionCall(<<>>, "empty", "bare", <<>>),
     ExtractionCall(<<W("Sorry"), W("no"), W("code")>>, "prose", "bare", <<>>),
     ExtractionCall(<<W("Here")>> \o PathContent("a.txt", "hi") \o <<P("}"), P("{"), W("oops")>>,
                    "fragment", "bare", <<FileRecord("a.txt", "hi")>>),
     ExtractionCall(<<W("Here"), P("{"), P("{")>> \o PathContent("a.txt", "hi"),
                    "fragment", "bare", <<FileRecord("a.txt", "hi")>>),
     ExtractionCall(<<S("path"), P(":"), S("a.txt"), NL, S("content"), P(":"), S("hi"), NL>>,
                    "fragment_lines", "bare", <<FileRecord("a.txt", "hi")>>),
     ExtractionCall(<<P("["), S("files"), P("]")>>, "json_list", "bare", <<>>),
     ExtractionCall(<<S("files")>>, "json_string", "bare", <<>>),
     ExtractionCall(Braced(<<S("files"), P(":"), S("hi")>>), "files_no_list", "bare", <<>>),
     ExtractionCall(Braced(<<S("files"), P(":"), P("["), P("]")>>), "files_empty", "bare", <<>>),
     ExtractionCall(Braced(<<S(" hi"), P(":"), P("["), P("]"), P(",")>>), "no_files", "bare", <<>>)}

ExtractionCalls ==
    {ExtractionCall(Wrapped(w, DocumentText(rs, d)),
                    IF d = "none" THEN "document" ELSE d, w, rs) :
        w \in Wrappers,
        d \in {"none", "comma_before_brace", "comma_in_record"},
        rs \in SeqsUpTo(RecordChoices, MaxRecords) \ {<<>>}}
      \cup OtherTexts

InitExtract ==
    /\ agents = EmptyDict
    /\ task_queue = <<>>
    /\ run = [r \in Runs |-> IdleFrame]
    /\ analysis_results_store = EmptyDict
    /\ allocated = 0
    /\ added = <<>>
    /\ got = <<>>
    /\ fn_call \in ExtractionCalls
    /\ fn_ret = [op |-> "none"]

CallExtract ==
    /\ fn_ret.op = "none"
    /\ fn_ret' = [op |-> "_robust_json_extraction",
                  out |-> RobustJsonExtraction(fn_call.content)]
    /\ UNCHANGED <<agents, task_queue, run, analysis_results_store, allocated, added, got,
                   fn_call>>

SpecExtract == InitExtract /\ [][CallExtract]_vars
-----------------------------------------------------------------------------
(* Claims about _robust_json_extraction (SpecExtract) *)

ExtractReturned == fn_ret.op = "_robust_json_extraction" /\ ~fn_ret.out.raised

\* The records of the call are {path, content} records, at least one.
CompleteRecords ==
    /\ fn_call.records # <<>>
    /\ \A i \in DOMAIN fn_call.records :
          HasKey(fn_call.records[i], "path") /\ HasKey(fn_call.records[i], "content")

\* C16: for every response text _robust_json_extraction returns a list and
\* no exception leaves it, whichever method raises inside: the list is empty
\* or holds dicts that have "path" and "content".
C16_ExtractionNeverRaises ==
    fn_ret.op = "_robust_json_extraction" =>
        /\ ~fn_ret.out.raised
        /\ DOMAIN fn_ret.out.value = 1..Len(fn_ret.out.value)
        /\ \A i \in DOMAIN fn_ret.out.value :
              /\ fn_ret.out.value[i].t = "dict"
              /\ HasKey(fn_ret.out.value[i], "path")
              /\ HasKey(fn_ret.out.value[i], "content")

\* C16 witness: the call returned the empty list for a content that is no
\* string, on which methods 1 and 2 raise TypeError inside their try.
C16_Witness ==
    /\ ExtractReturned
    /\ ~IsText(fn_call.content)
    /\ Method1(fn_call.content).status = "raised"
    /\ Method2(fn_call.content).status = "raised"
    /\ fn_ret.out.value = <<>>

\* Method k was gone through without giving the records the call returned.
YieldedNothing(k) ==
    /\ \E i \in DOMAIN fn_ret.out.attempted : fn_ret.out.attempted[i] = k
    /\ \/ fn_ret.out.attempted[Len(fn_ret.out.attempted)] # k
       \/ fn_ret.out.value = <<>>

\* C17: whenever method k (k = 1, 2, 3) raises or yields no valid record,
\* method k+1 is attempted; the line-by-line method 4 is attempted whenever
\* methods 1, 2 and 3 all yielded nothing.
C17_NextMethodAttempted ==
    ExtractReturned =>
        \A k \in 1..3 :
            YieldedNothing(k) =>
                \E i \in DOMAIN fn_ret.out.attempted : fn_ret.out.attempted[i] = k + 1

\* C18: for a text that contains a well-formed JSON object with a files list
\* of {path, content} records, method 1 returns those records and methods
\* 2, 3 and 4 are not gone through.
C18_DirectParseRecovers ==
    (ExtractReturned /\ fn_call.kind = "document" /\ CompleteRecords) =>
        /\ fn_ret.out.value = fn_call.records
        /\ fn_ret.out.attempted = <<1>>

\* C19: for a JSON document that is well formed but for one trailing comma
\* before a closing brace, method 1 fails and method 2, which parses the
\* string _clean_json_string returns, recovers the file records.
C19_CleanedParseRecovers ==
    (/\ ExtractReturned
     /\ fn_call.kind \in {"comma_before_brace", "comma_in_record"}
     /\ fn_call.wrapper = "bare"
     /\ CompleteRecords) =>
        /\ fn_ret.out.value = fn_call.records
        /\ fn_ret.out.attempted = <<1, 2>>

\* C20: for prose that holds one "path": "a.txt", "content": "hi" fragment
\* between broken braces, methods 1 and 2 fail and method 3 recovers exactly
\* the record {path: a.txt, content: hi}.
C20_PatternRecoversFragment ==
    (ExtractReturned /\ fn_call.kind = "fragment") =>
        /\ fn_ret.out.value = fn_call.records
        /\ Len(fn_ret.out.value) = 1
        /\ fn_ret.out.attempted = <<1, 2, 3>>
-----------------------------------------------------------------------------
(* TemplateFactory: the files of a fallback service *)

\* A source file handed to refactor_code: [stem, ext]; ext is what follows
\* the last dot of the path, in lower case ("" without a dot).
CodeFile(stem, ext) == [stem |-> stem, ext |-> ext]

\* The language an extension counts for in detect_language ("" for none).
LanguageOfExt(ext) ==
    CASE ext \in {"cs", "csproj"} -> "C#"
      [] ext \in {"java", "gradle"} -> "Java"
      [] ext = "py" -> "Python"
      [] ext \in {"js", "ts"} -> "JavaScript"
      [] ext = "go" -> "Go"
      [] OTHER -> ""

\* TemplateFactory.detect_language: max(language_counts, key=...) gives the
\* language counted most often, the one seen first among equals.
DetectLanguage(original_code) ==
    LET Seen(lang) == {i \in DOMAIN original_code : LanguageOfExt(original_code[i].ext) = lang}
        langs == {LanguageOfExt(original_code[i].ext) : i \in DOMAIN original_code} \ {""}
        most == {l \in langs : \A m \in langs : Cardinality(Seen(m)) <= Cardinality(Seen(l))}
    IN  IF langs = {} THEN "Generic"
        ELSE CHOOSE l \in most : \A m \in most : Min(Seen(l)) <= Min(Seen(m))

\* generate_main_files of the template of a language: the paths below the
\* service directory.
MainFiles(language) ==
    CASE language = "C#" ->
            <<"/Program.cs", "/Startup.cs", "/service.csproj",
              "/Controllers/HealthController.cs", "/appsettings.json">>
      [] language = "Java" ->
            <<"/src/main/java/com/service/Application.java",
              "/src/main/java/com/service/controller/HealthController.java",
              "/pom.xml", "/src/main/resources/application.yml">>
      [] language = "Python" -> <<"/main.py", "/requirements.txt", "/config.py", "/wsgi.py">>
      [] language = "JavaScript" -> <<"/index.js", "/package.json", "/.env.example">>
      [] language = "Go" -> <<"/main.go", "/go.mod", "/go.sum">>
      [] OTHER -> <<"/main.txt", "/config.txt">>

\* A service boundary as refactor_code reads it: name is a string ("str"),
\* the key is absent ("absent") or its value is None ("none").
DevBoundary(shape, name) == [shape |-> shape, name |-> name]

\* service_boundary.get("name")
GetName(service_boundary) ==
    IF service_boundary.shape = "str" THEN service_boundary.name ELSE None

\* A file dict of a template, as the dict json.loads would build.
TemplateFile(path, content) ==
    JObj(<<"path", "content">>, <<JStr(path), JStr(content)>>)

\* A fallback that creates nothing.
CreateNoFiles(service_boundary, original_code) == Returned(<<>>)

\* TemplateFactory.create_service_files with BaseTemplate.create_service_files:
\* README.md, the main files of the language, Dockerfile, .gitignore and
\* docker-compose.yml.  Raised: generate_readme calls .lower() on a name
\* that is None.
CreateServiceFiles(service_boundary, original_code) ==
    IF service_boundary.shape = "none" THEN Raised
    ELSE LET service_name == IF service_boundary.shape = "str"
                             THEN service_boundary.name ELSE "UnknownService"
             main_files == MainFiles(DetectLanguage(original_code))
         IN  Returned(<<TemplateFile(service_name \o "/README.md", "readme")>>
                \o [i \in DOMAIN main_files |->
                        TemplateFile(service_name \o main_files[i], "main file")]
                \o <<TemplateFile(service_name \o "/Dockerfile", "dockerfile"),
                     TemplateFile(service_name \o "/.gitignore", "gitignore"),
                     TemplateFile(service_name \o "/docker-compose.yml", "docker compose")>>)
-----------------------------------------------------------------------------
(* DeveloperAgent.refactor_code *)

MAX_FILES_PER_BATCH == 6
MaxCodeFiles == 13    \* most files in original_code (three batches)

\* The i-th file of original_code, in the order of the dict.
ExtOf(i) ==
    CASE i = 1 -> ""
      [] i = 2 -> "cs"
      [] i \in {3, 4} -> "py"
      [] i \in {5, 6, 7} -> "java"
      [] i \in {8, 10, 11} -> "js"
      [] i = 9 -> "ts"
      [] i = 13 -> "txt"
      [] OTHER -> "go"
OriginalCode(n) == [i \in 1..n |-> CodeFile(i, ExtOf(i))]

\* What `await self.llm_service.generate_completion(prompt)` does for a
\* batch: it raises, or returns a response with this content.
LlmContents ==
    {NoText,
     <<W("Sorry"), W("no"), W("code")>>,
     DocumentText(<<FileRecord("a.txt", "hi")>>, "none"),
     DocumentText(<<FileRecord("a.txt", " hi"), FileRecord("b.txt", "hi")>>, "none"),
     DocumentText(<<FileRecord("a.txt", "hi"), FileRecord("a.txt", " hi")>>, "none"),
     DocumentText(<<FileRecord("a.txt", "hi")>>, "comma_before_brace"),
     Wrapped("fenced", DocumentText(<<FileRecord("a.txt", "hi")>>, "none")),
     DocumentText(<<ListPathRecord>>, "none")}
LlmOutcomes == {Raised} \cup {Returned(content) : content \in LlmContents}

\* f["path"] can be a key of unique_files: lists and dicts are unhashable.
Hashable(value) == value.t = "str"

\* A dict that keeps the first file stored under a path.
DeduplicatedFirstWins(files) ==
    LET first == {i \in DOMAIN files :
                    \A j \in DOMAIN files : GetKey(files[j], "path") = GetKey(files[i], "path")
                                                => i <= j}
        Nth(n) == CHOOSE i \in first : Cardinality({j \in first : j < i}) = n - 1
    IN  [n \in 1..Cardinality(first) |-> files[Nth(n)]]

\* unique_files of lines 87-89, as list(unique_files.values()): one file per
\* path, in the order the paths came first, each the last file of its path.
Deduplicated(files) ==
    LET first == {i \in DOMAIN files :
                    \A j \in DOMAIN files : GetKey(files[j], "path") = GetKey(files[i], "path")
                                                => i <= j}
        LastOf(i) == Max({j \in DOMAIN files :
                            GetKey(files[j], "path") = GetKey(files[i], "path")})
        Nth(n) == CHOOSE i \in first : Cardinality({j \in first : j < i}) = n - 1
    IN  [n \in 1..Cardinality(first) |-> files[LastOf(Nth(n))]]

\* The frame of a refactor_code call: i is the index of range() at line 52,
\* batches records what each finished batch added to microservice_files.
RefactorFrame(pc, i, microservice_files, batches) ==
    [op |-> "refactor_code", pc |-> pc, i |-> i,
     microservice_files |-> microservice_files, batches |-> batches]
RefactorRaised(frame) == [frame EXCEPT !.pc = "raised"]
RefactorReturned(frame, service_name, files) ==
    [op |-> "refactor_code", pc |-> "returned", i |-> frame.i,
     microservice_files |-> frame.microservice_files, batches |-> frame.batches,
     out |-> DeveloperResult(service_name, files)]

\* From the head of the for loop (line 52) to the next await, or through
\* lines 85-101 to the return.  _prepare_refactoring_prompt reads
\* service_boundary['name'] outside the try: KeyError without the key.
RefactorLoop(call, frame) ==
    IF frame.i < Len(call.original_code)
    THEN IF call.service_boundary.shape = "absent"
         THEN RefactorRaised(frame)
         ELSE [frame EXCEPT !.pc = "awaiting"]
    ELSE IF frame.microservice_files # <<>>
    THEN IF \E k \in DOMAIN frame.microservice_files :
                ~Hashable(GetKey(frame.microservice_files[k], "path"))
         THEN RefactorRaised(frame)            \* TypeError: unhashable type
         ELSE RefactorReturned(frame, GetName(call.service_boundary),
                               Deduplicated(frame.microservice_files))
    ELSE LET created == CreateServiceFiles(call.service_boundary, call.original_code)
         IN  IF created.raised THEN RefactorRaised(frame)
             ELSE RefactorReturned(frame, GetName(call.service_boundary), created.value)

\* What a batch adds: lines 70-83.  An exception of the call, of
\* content[:300] on None or of the extraction is logged and the batch adds
\* nothing.  ExtractionOf is _robust_json_extraction over the contents.
ExtractionOf == [content \in {c \in LlmContents : IsText(c)} |-> RobustJsonExtraction(content)]
BatchFiles(o) ==
    IF o.raised \/ ~IsText(o.value) THEN <<>>
    ELSE IF ExtractionOf[o.value].raised THEN <<>>
    ELSE ExtractionOf[o.value].value

RefactorCalls ==
    {[op |-> "refactor_code", service_boundary |-> DevBoundary(shape, "Svc"),
      original_code |-> OriginalCode(n)] :
        shape \in {"str", "absent", "none"}, n \in 0..MaxCodeFiles}

InitDeveloper ==
    /\ agents = EmptyDict
    /\ task_queue = <<>>
    /\ run = [r \in Runs |-> IdleFrame]
    /\ analysis_results_store = EmptyDict
    /\ allocated = 0
    /\ added = <<>>
    /\ got = <<>>
    /\ fn_call \in RefactorCalls
    /\ fn_ret = [op |-> "none"]

\* refactor_code is called: lines 35-42 for empty original_code, else on to
\* the first batch.
RefactorCode ==
    /\ fn_ret.op = "none"
    /\ LET frame == RefactorFrame("started", 0, <<>>, <<>>)
       IN  fn_ret' =
             IF fn_call.original_code = <<>>
             THEN LET created == CreateServiceFiles(fn_call.service_boundary, <<>>)
                  IN  IF created.raised THEN RefactorRaised(frame)
                      ELSE RefactorReturned(frame, GetName(fn_call.service_boundary),
                                            created.value)
             ELSE RefactorLoop(fn_call, frame)
    /\ UNCHANGED <<agents, task_queue, run, analysis_results_store, allocated, added, got,
                   fn_call>>

\* The LLM call of the current batch ends with outcome o.
BatchDone(o) ==
    /\ fn_ret.op = "refactor_code"
    /\ fn_ret.pc = "awaiting"
    /\ LET parsed_files == BatchFiles(o)
       IN  fn_ret' = RefactorLoop(fn_call,
                        [fn_ret EXCEPT !.i = @ + MAX_FILES_PER_BATCH,
                                       !.microservice_files = @ \o parsed_files,
                                       !.batches = Append(@, parsed_files)])
    /\ UNCHANGED <<agents, task_queue, run, analysis_results_store, allocated, added, got,
                   fn_call>>

NextDeveloper == RefactorCode \/ \E o \in LlmOutcomes : BatchDone(o)

SpecDeveloper == InitDeveloper /\ [][NextDeveloper]_vars
-----------------------------------------------------------------------------
(* Claims on refactor_code *)

RefactorHasReturned == fn_ret.op = "refactor_code" /\ fn_ret.pc = "returned"

\* Every batch of the call was run and none added a file.
EveryBatchEmpty ==
    /\ Len(fn_ret.batches) >= 1
    /\ \A k \in DOMAIN fn_ret.batches : fn_ret.batches[k] = <<>>

\* C14: a refactor_code call that returns, returns at least one file,
\* whether original_code was empty, every batch raised or every batch
\* extracted nothing.
C14_NeverReturnsNoFiles ==
    RefactorHasReturned => Len(fn_ret.out.files) >= 1

\* Three batches were run, none added a file, and the call has returned.
C14_Witness ==
    /\ RefactorHasReturned
    /\ EveryBatchEmpty
    /\ Len(fn_ret.batches) = 3

\* The content of a file tells that the generation failed.  The contents of
\* BaseTemplate are a README, main files, a Dockerfile, a .gitignore and a
\* docker-compose.yml of a working service.
SignalsFailure(file) == GetKey(file, "content") = JStr("generation failed")

\* C15: when no batch of a call extracted a file, the call returns exactly
\* one placeholder file, whose content signals the failure.
C15_OnePlaceholderOnTotalFailure ==
    (RefactorHasReturned /\ EveryBatchEmpty)
        => /\ Len(fn_ret.out.files) = 1
           /\ SignalsFailure(fn_ret.out.files[1])
-----------------------------------------------------------------------------
(* Claims on the merge of the batches *)

\* The records the batches of the call recovered, in batch order.
RECURSIVE Recovered(_)
Recovered(batches) ==
    IF batches = <<>> THEN <<>> ELSE Head(batches) \o Recovered(Tail(batches))

PathOf(file) == GetKey(file, "path")

\* C21: the returned list merges the records of the batches last-write-wins
\* by path: its paths are pairwise distinct, each of its files is the last
\* recovered record of its path, and every recovered path is in it, whatever
\* the other batches did.
C21_MergedLastWriteWins ==
    (RefactorHasReturned /\ ~EveryBatchEmpty /\ fn_ret.batches # <<>>)
        => LET recovered == Recovered(fn_ret.batches)
               files == fn_ret.out.files
           IN  /\ \A i, j \in DOMAIN files : PathOf(files[i]) = PathOf(files[j]) => i = j
               /\ \A i \in DOMAIN files :
                    \E k \in DOMAIN recovered :
                        /\ recovered[k] = files[i]
                        /\ \A l \in DOMAIN recovered :
                              PathOf(recovered[l]) = PathOf(files[i]) => l <= k
               /\ \A k \in DOMAIN recovered :
                    \E i \in DOMAIN files : PathOf(files[i]) = PathOf(recovered[k])

\* Three batches: the first and the last recovered a record of the same path
\* with different contents, the one between them recovered nothing.
C21_Witness ==
    /\ RefactorHasReturned
    /\ Len(fn_ret.batches) = 3
    /\ fn_ret.batches[2] = <<>>
    /\ \E a \in DOMAIN fn_ret.batches[1], b \in DOMAIN fn_ret.batches[3] :
          /\ PathOf(fn_ret.batches[1][a]) = PathOf(fn_ret.batches[3][b])
          /\ fn_ret.batches[1][a] # fn_ret.batches[3][b]
-----------------------------------------------------------------------------
(* Claims about the empty TaskQueue (SpecQueue) *)

\* Every task that was added has been returned: the queue holds no task.
HoldsNoTask == Len(got) = Len(added)

\* C22: get_next_task on an empty queue returns None, raises nothing and
\* leaves the queue empty; is_empty is true exactly when the queue holds no
\* task.
C22_EmptyQueueGivesNone ==
    /\ (fn_ret.op = "get_next_task" /\ fn_ret.was_empty)
          => /\ fn_ret.value = None
             /\ task_queue = <<>>
             /\ HoldsNoTask
    /\ IsEmpty(task_queue) <=> HoldsNoTask

\* get_next_task was called on a queue that earlier calls had drained.
C22_Witness ==
    /\ fn_ret.op = "get_next_task"
    /\ fn_ret.was_empty
    /\ fn_ret.value = None
    /\ Len(got) >= 2
-----------------------------------------------------------------------------
(* Claims about overlapping runs (SpecOverlap) *)

-----------------------------------------------------------------------------
(* Claims about the sequential worker (Spec) *)

\* The run is done with a task it dequeued: its outcome is recorded, or the
\* task was skipped for want of its agent or action.
Settled(r, task) == task.id \in DOMAIN run[r].results \/ ~Executable(task, agents)

\* The tasks run r dequeued and is not done with.
InFlight(r) ==
    {i \in DOMAIN ExecutedBy(r) : ~Settled(r, ExecutedBy(r)[i])}

\* C24: at most one task operation of a run is in flight: of the tasks the
\* run has dequeued only the last can be without recorded outcome, and then
\* the run is suspended in the call of that task.
C24_OneTaskInFlight ==
    \A r \in SpecRuns :
        \A i \in InFlight(r) :
            /\ i = Len(ExecutedBy(r))
            /\ run[r].pc = "awaiting"
            /\ run[r].current_task = ExecutedBy(r)[i]

\* The call of a refactor task is in flight while another refactor task
\* waits in the queue and earlier tasks have their outcomes recorded.
C24_Witness ==
    \E r \in SpecRuns :
        /\ run[r].pc = "awaiting"
        /\ run[r].current_task.agent = "developer"
        /\ InFlight(r) = {Len(ExecutedBy(r))}
        /\ Len(ExecutedBy(r)) >= 3
        /\ \E k \in DOMAIN task_queue : task_queue[k].agent = "developer"
-----------------------------------------------------------------------------
(* Claims about the number of follow-up tasks (Spec) *)

\* The tasks handed to add_task in the step.
NewlyAdded == SubSeq(added', Len(added) + 1, Len(added'))

\* C25: when the call of an analyze task has ended and its result was
\* recorded, exactly one task is added, (architect,
\* identify_service_boundaries) with that result; when the call of a refactor
\* task has ended, or the outcome recorded for the task is an error, none is
\* added.  A run adds its seed when it starts and no task in any other step,
\* so that a skipped task adds none.
C25_FollowUpCounts ==
    [][\A r \in SpecRuns :
          IF run[r].pc = "awaiting" /\ run'[r] # run[r]
          THEN LET t == run[r].current_task
                   outcome == run'[r].results[t.id]
               IN  /\ (t.agent = "analyzer" /\ ~IsError(outcome))
                          => /\ Len(NewlyAdded) = 1
                             /\ NewlyAdded[1].task.agent = "architect"
                             /\ NewlyAdded[1].task.action = "identify_service_boundaries"
                             /\ NewlyAdded[1].task.params = [analysis_results |-> outcome]
                   /\ (t.agent = "developer" \/ IsError(outcome)) => NewlyAdded = <<>>
          ELSE run[r].pc = "scheduled" /\ run'[r] # run[r]
                  => Len(NewlyAdded) = 1 /\ NewlyAdded[1].task.agent = "analyzer"
      ]_vars

\* A run has returned in which the analyze task and a refactor task
\* succeeded and another refactor task failed: the seed, one identify task and
\* two refactor tasks were added.
C25_Witness ==
    \E r \in SpecRuns :
        /\ run[r].pc = "returned"
        /\ Len(CreatedBy(r)) = 4
        /\ \E s, t \in DequeuedBy(r) :
              /\ s.agent = "developer" /\ s.id \in DOMAIN run[r].results
              /\ t.agent = "developer" /\ t.id \in DOMAIN run[r].results
              /\ ~IsError(run[r].results[s.id])
              /\ IsError(run[r].results[t.id])
-----------------------------------------------------------------------------
(* Claims about the terminal audit (Spec) *)

\* The refactor tasks of run r with a recorded outcome.
RecordedRefactors(r) ==
    {t \in DequeuedBy(r) : t.agent = "developer" /\ t.id \in DOMAIN run[r].results}

\* The lists _validate_complete_coverage built at the end of run r.
AuditOf(r) == ValidateCompleteCoverage(run[r].results, run[r].parsed_files)

\* The files an outcome produced: none when the task failed with an error.
ProducedFiles(outcome) == IF IsError(outcome) THEN <<>> ELSE outcome.files

OnlyPlaceholder(files) == Len(files) = 1 /\ SignalsError(files[1].content)

\* C26: the audit at the end of a run puts the service of every recorded
\* refactor outcome, that of a task that failed with an error included, in
\* exactly one of its two lists: in the failed ones exactly when the outcome
\* produced no file or a single placeholder file, in the succeeded ones
\* otherwise.
C26_AuditClassifiesEveryOutcome ==
    \A r \in SpecRuns :
        run[r].pc = "returned" =>
            \A t \in RecordedRefactors(r) :
                LET name == t.params.service_boundary.name
                    files == ProducedFiles(run[r].results[t.id])
                IN  /\ (name \in AuditOf(r).failed_services)
                          # (name \in AuditOf(r).successful_services)
                    /\ name \in AuditOf(r).failed_services
                          <=> (files = <<>> \/ OnlyPlaceholder(files))
-----------------------------------------------------------------------------
(* Claims about recorded outcomes (Spec) *)

\* C27: an outcome recorded under a task id stays as it was recorded for the
\* rest of the run and after it: the mapping holds, under every id an outcome
\* was stored under, the value that was stored, whatever the derivation of
\* the follow-up tasks, the coverage completion and the audit did since.
C27_RecordedOutcomesKept ==
    \A r \in SpecRuns :
        \A k \in DOMAIN run[r].as_recorded :
            /\ k \in DOMAIN run[r].results
            /\ run[r].results[k] = run[r].as_recorded[k]
-----------------------------------------------------------------------------
(* async_retry: the wrapper around a coroutine function *)

MaxRetries == 3       \* largest max_retries of a wrapped call

\* What awaiting func(*args, **kwargs) or asyncio.sleep can do: return a
\* value or raise.  CancelledError is a BaseException and no Exception.
RetryValues == {"r1", "r2"}
RetryErrors == {"E1", "E2", "CancelledError"}
RaisedWith(exc) == [raised |-> TRUE, exc |-> exc]
IsException(exc) == exc # "CancelledError"
AttemptOutcomes == {Returned(v) : v \in RetryValues} \cup {RaisedWith(e) : e \in RetryErrors}
SleepOutcomes == {Returned(None), RaisedWith("CancelledError")}

\* Line 28: the test that ends the retries, and a test that ends them one
\* failure later.
GivesUpLate(retries, max_retries) == retries > max_retries
GivesUp(retries, max_retries) == retries >= max_retries

\* The frame of a wrapper call; attempts is the history of the outcomes of
\* the calls of func.
RetryFrame(pc, retries, current_delay, attempts) ==
    [op |-> "async_retry", pc |-> pc, retries |-> retries,
     current_delay |-> current_delay, attempts |-> attempts]
RetryLeft(frame, o) ==
    [op |-> "async_retry", pc |-> IF o.raised THEN "raised" ELSE "returned",
     retries |-> frame.retries, current_delay |-> frame.current_delay,
     attempts |-> frame.attempts, out |-> o]

\* The head of the while loop (line 24): on to the next call of func, or off
\* the end of wrapper, which returns None.
RetryLoop(call, frame) ==
    IF frame.retries < call.max_retries
    THEN [frame EXCEPT !.pc = "awaiting"]
    ELSE RetryLeft(frame, Returned(None))

\* The arguments of the decorator: delay = 1 is the default.
RetryDelays == {1, 2}
RetryCalls ==
    {[op |-> "async_retry", max_retries |-> n, delay |-> d] :
        n \in 0..MaxRetries, d \in RetryDelays}

InitRetry ==
    /\ agents = EmptyDict
    /\ task_queue = <<>>
    /\ run = [r \in Runs |-> IdleFrame]
    /\ analysis_results_store = EmptyDict
    /\ allocated = 0
    /\ added = <<>>
    /\ got = <<>>
    /\ fn_call \in RetryCalls
    /\ fn_ret = [op |-> "none"]

\* The wrapper is called: lines 22-24.
CallWrapper ==
    /\ fn_ret.op = "none"
    /\ fn_ret' = RetryLoop(fn_call, RetryFrame("started", 0, fn_call.delay, <<>>))
    /\ UNCHANGED <<agents, task_queue, run, analysis_results_store, allocated, added, got,
                   fn_call>>

\* The awaited call of func ends with outcome o: lines 25-32.
AttemptDone(o) ==
    /\ fn_ret.op = "async_retry"
    /\ fn_ret.pc = "awaiting"
    /\ LET frame == [fn_ret EXCEPT !.attempts = Append(@, o)]
       IN  fn_ret' =
             IF ~o.raised THEN RetryLeft(frame, o)
             ELSE IF ~IsException(o.exc) THEN RetryLeft(frame, o)
             ELSE LET counted == [frame EXCEPT !.retries = @ + 1]
                  IN  IF GivesUp(counted.retries, fn_call.max_retries)
                      THEN RetryLeft(counted, o)               \* raise
                      ELSE [counted EXCEPT !.pc = "sleeping"]
    /\ UNCHANGED <<agents, task_queue, run, analysis_results_store, allocated, added, got,
                   fn_call>>

\* asyncio.sleep(current_delay) ends: lines 32-33 and the loop again.
SleepDone(o) ==
    /\ fn_ret.op = "async_retry"
    /\ fn_ret.pc = "sleeping"
    /\ fn_ret' = IF o.raised THEN RetryLeft(fn_ret, o)
                 ELSE RetryLoop(fn_call, [fn_ret EXCEPT !.current_delay = @ * 2])
    /\ UNCHANGED <<agents, task_queue, run, analysis_results_store, allocated, added, got,
                   fn_call>>

NextRetry ==
    \/ CallWrapper
    \/ \E o \in AttemptOutcomes : AttemptDone(o)
    \/ \E o \in SleepOutcomes : SleepDone(o)

SpecRetry == InitRetry /\ [][NextRetry]_vars

-----------------------------------------------------------------------------
(* Claims about async_retry (SpecRetry) *)

Failed(o) == o.raised /\ IsException(o.exc)

\* C28: a wrapper with max_retries = n >= 1 calls func at most n times; an
\* attempt that succeeds is the last one and the wrapper returns its result;
\* when n attempts have failed the wrapper raises the exception of the n-th;
\* the wrapper only returns after an attempt that succeeded.
C28_RetryContract ==
    (fn_ret.op = "async_retry" /\ fn_call.max_retries >= 1)
        => LET attempts == fn_ret.attempts
               n == fn_call.max_retries
           IN  /\ Len(attempts) <= n
               /\ \A i \in DOMAIN attempts :
                     ~attempts[i].raised
                        => /\ i = Len(attempts)
                           /\ fn_ret.pc = "returned"
                           /\ fn_ret.out = attempts[i]
               /\ (Len(attempts) = n /\ \A i \in DOMAIN attempts : Failed(attempts[i]))
                     => /\ fn_ret.pc = "raised"
                        /\ fn_ret.out = attempts[n]
               /\ fn_ret.pc = "returned"
                     => /\ attempts # <<>>
                        /\ fn_ret.out = attempts[Len(attempts)]
                        /\ ~fn_ret.out.raised

\* Three attempts, the first two failed with different exceptions and the
\* third succeeded: the wrapper has returned.
C28_Witness ==
    /\ fn_ret.op = "async_retry"
    /\ fn_call.max_retries = 3
    /\ fn_ret.pc = "returned"
    /\ Len(fn_ret.attempts) = 3
    /\ fn_ret.attempts[1].raised /\ fn_ret.attempts[2].raised
    /\ fn_ret.attempts[1] # fn_ret.attempts[2]
-----------------------------------------------------------------------------
(* Claims about analysis_results_store (Spec) *)

Terminal(record) == record.status \in {"completed", "failed"}

\* C29: the record of a repo_id is in the store, with status "processing",
\* before the background run of the request starts; its status changes at
\* most once, from "processing" to "completed" or "failed"; a record with a
\* terminal status is not written again, and no record leaves the store.
C29_RecordLifecycle ==
    /\ [](\A r \in Runs : run[r].pc # "idle" => r \in DOMAIN analysis_results_store)
    /\ [][\A r \in Runs :
            IF r \in DOMAIN analysis_results_store
            THEN /\ r \in DOMAIN analysis_results_store'
                 /\ Terminal(analysis_results_store[r])
                       => analysis_results_store'[r] = analysis_results_store[r]
                 /\ analysis_results_store'[r].status # analysis_results_store[r].status
                       => /\ analysis_results_store[r].status = "processing"
                          /\ Terminal(analysis_results_store'[r])
            ELSE r \in DOMAIN analysis_results_store'
                    => /\ analysis_results_store'[r].status = "processing"
                       /\ run[r].pc = "idle"
                       /\ run'[r].pc = "scheduled"
       ]_vars

\* The run of a request was left by an exception and its record, first
\* "processing", is "failed".
C29_Witness ==
    \E r \in SpecRuns :
        /\ run[r].pc = "raised"
        /\ analysis_results_store[r].status = "failed"
        /\ Len(ExecutedBy(r)) >= 2
-----------------------------------------------------------------------------
(* AgentOrchestrator.get_processing_summary *)

\* result.get("files", [])
ResultGetFiles(result) == IF "files" \in DOMAIN result THEN result.files ELSE <<>>

\* The test of line 242 on the files of a developer result.
SummaryWithCode(files) ==
    files # <<>> /\ ~(Len(files) = 1 /\ files[1].path = "README.txt")

\* The service counter that lines 240-245 increment for an entry of results:
\* none for an error and for the results of other agents.
ServiceCounter(task_id, result) ==
    IF IsError(result) \/ task_id[1] # "developer" THEN "none"
    ELSE IF SummaryWithCode(ResultGetFiles(result)) THEN "services_with_code"
    ELSE "services_failed"

\* The counters of the summary.
GetProcessingSummary(results) ==
    [total_tasks |-> Cardinality(DOMAIN results),
     failed_tasks |-> Cardinality({k \in DOMAIN results : IsError(results[k])}),
     successful_tasks |-> Cardinality({k \in DOMAIN results : ~IsError(results[k])}),
     services_with_code |->
        Cardinality({k \in DOMAIN results :
                        ServiceCounter(k, results[k]) = "services_with_code"}),
     services_failed |->
        Cardinality({k \in DOMAIN results :
                        ServiceCounter(k, results[k]) = "services_failed"})]

-----------------------------------------------------------------------------
(* Claims about the two reports (Spec) *)

\* The recorded outcomes of refactor tasks of run r that hold a files list.
OutcomesWithFiles(r) ==
    {t \in RecordedRefactors(r) : "files" \in DOMAIN run[r].results[t.id]}

\* C30: on every recorded developer outcome with a files list the summary
\* and the audit agree: the summary counts it under services_failed exactly
\* when the audit has its service among the failed ones, and under
\* services_with_code exactly when the audit has it among the successful
\* ones; the two counters are the sizes of the two lists.
C30_ReportsAgree ==
    \A r \in SpecRuns :
        run[r].pc = "returned" =>
            /\ \A t \in OutcomesWithFiles(r) :
                  LET name == t.params.service_boundary.name
                      counter == ServiceCounter(t.id, run[r].results[t.id])
                  IN  /\ counter = "services_failed" <=> name \in AuditOf(r).failed_services
                      /\ counter = "services_with_code"
                            <=> name \in AuditOf(r).successful_services
            /\ OutcomesWithFiles(r) = RecordedRefactors(r)
                  => /\ GetProcessingSummary(run[r].results).services_failed
                            = Cardinality(AuditOf(r).failed_services)
                     /\ GetProcessingSummary(run[r].results).services_with_code
                            = Cardinality(AuditOf(r).successful_services)

====
